---------------------------- MODULE Spec2Model ----------------------------
(***************************************************************************)
(* bs::Bitstream (Source/Foundation/bsfUtility/Utility/BsBitstream.h).     *)
(*                                                                         *)
(* A stream of bits over a buffer of uint8_t quants, which the stream      *)
(* either owns (and grows) or borrows from the caller.  The buffer is a    *)
(* sequence of bytes 0..255; C++ index i is position i + 1 of the          *)
(* sequence, and the empty sequence is the null pointer.                   *)
(***************************************************************************)
EXTENDS Integers, Sequences, FiniteSets, TLC

(***************************************************************************)
(* Bounds of the model.                                                    *)
(***************************************************************************)
\* Operations applied to one stream in the general specification.
MaxOps == 3
\* Largest end position (cursor + count) of a write in the general
\* specification.
MaxBits == 24
\* Fields appended in the round-trip specification.
MaxFields == 3
\* Largest reserve, in bytes, of a stream in the alignment specification.
MaxReserve == 9
\* Largest byteCount passed to align in the alignment specification.
MaxAlign == 5

(***************************************************************************)
(* Program constants.                                                      *)
(***************************************************************************)
BYTES_PER_QUANT == 1
BITS_PER_QUANT == BYTES_PER_QUANT * 8
BITS_PER_QUANT_LOG2 == 3
MaxInt32 == 2147483647
MinInt32 == -MaxInt32 - 1

(***************************************************************************)
(* Bit arithmetic on non-negative integers.                                *)
(***************************************************************************)
Min(a, b) == IF a < b THEN a ELSE b
Max(a, b) == IF a > b THEN a ELSE b
Pow2(n) == 2 ^ n

RECURSIVE BitAnd(_, _)
BitAnd(a, b) ==
    IF a = 0 \/ b = 0 THEN 0
    ELSE (a % 2) * (b % 2) + 2 * BitAnd(a \div 2, b \div 2)

RECURSIVE BitOr(_, _)
BitOr(a, b) ==
    IF a = 0 THEN b
    ELSE IF b = 0 THEN a
    ELSE Max(a % 2, b % 2) + 2 * BitOr(a \div 2, b \div 2)

\* a & ~m for a mask m: the bits of a that m does not select.
BitAndNot(a, m) == a - BitAnd(a, m)

\* The value an int expression has once it is stored in a QuantType.
ToQuant(x) == x % Pow2(BITS_PER_QUANT)

\* Bit p (0 = least significant of byte 0) of a byte sequence.
BitOf(buf, p) == (buf[(p \div 8) + 1] \div Pow2(p % 8)) % 2


(***************************************************************************)
(* Inputs of the model.                                                    *)
(***************************************************************************)
\* Content of memory the program has not written: each byte of a fresh
\* allocation (bs_allocN does not initialise it) and of a caller's buffer.
FillBytes == {0, 255}
\* In place of a fill byte: bs_allocN fails, it returns no memory.
NoMemory == Pow2(BITS_PER_QUANT)
\* Source buffers: byte i of a source is (first + 17 * i) mod 256.
SrcFirst == {0, 165}
Source(first, count) ==
    [i \in 1..((count + 7) \div 8) |-> (first + (i - 1) * 17) % 256]
\* Bit counts of writeBits and readBits.
Counts == {0, 3, 8, 11}
\* Arguments of skip (int32_t), seek (uint32_t) and align (uint32_t).
SkipCounts == {-1000, -3, 5, 1000, MaxInt32}
SeekPositions == {0, 3, 1000}
AlignCounts == {0, 1, 2, 3}
\* Constructor arguments: reserve in bytes, external buffers in bits.
ReserveBytes == {0, 2}
ExternalBits == {13, 16}

(***************************************************************************)
(* State.                                                                  *)
(***************************************************************************)
VARIABLES
    mData,        \* the buffer: Seq(0..255), << >> for nullptr
    mMaxBits,     \* capacity in bits
    mNumBits,     \* logical size in bits
    mOwnsMemory,  \* the stream allocates and releases mData
    mCursor,      \* read/write position in bits
    ndebug,       \* the build defines NDEBUG: assert() expands to nothing
    trapped,      \* the program was aborted (failed assert, overflow trap)
    ub,           \* a call has run into undefined behaviour
    call,         \* the last call: its arguments, results and pre-state
    ops,          \* number of calls made
    allocs,       \* number of buffers allocated so far
    ctor,         \* the constructor that built the stream, and its argument
    bufId,        \* which buffer mData points to: the stream's k-th allocation
                  \* (k >= 1), or 0 for none of them (nullptr, caller's buffer)
    released,     \* the buffers passed to bs_free, in order
    uaf,          \* a buffer was accessed after its release
    destroyed,    \* the destructor has run
    pc,           \* phase of the scenario ("run" in the general one)
    fields,       \* scenario: the fields written (the aligns made), in order
    got,          \* round trip: the destinations read back, in order
    ri            \* round trip: index of the next field to read back

stream == <<mData, mMaxBits, mNumBits, mOwnsMemory, mCursor>>
scenario == <<pc, fields, got, ri>>
vars == <<mData, mMaxBits, mNumBits, mOwnsMemory, mCursor, ndebug, trapped,
          ub, call, ops, allocs, ctor, bufId, released, uaf, destroyed,
          pc, fields, got, ri>>

\* Number of bytes of a buffer of n bits.
DivideAndRoundUp(n, d) == (n + d - 1) \div d

\* Math::clamp(val, minval, maxval)
Clamp(val, minval, maxval) == Max(Min(val, maxval), minval)

(***************************************************************************)
(* Buffer accesses.  An access record carries the buffer and the highest   *)
(* index read or written so far (-1: none).  A store to an index outside   *)
(* the buffer leaves the buffer as it is (the byte lands in memory that is *)
(* not the stream's); a load from outside yields the byte junk.            *)
(***************************************************************************)
LoadQ(buf, i, junk) == IF i < Len(buf) THEN buf[i + 1] ELSE junk

StoreQ(acc, i, v) ==
    [buf |-> IF i < Len(acc.buf) THEN [acc.buf EXCEPT ![i + 1] = v] ELSE acc.buf,
     hi |-> Max(acc.hi, i)]

\* memcpy(&buf[at], src, n): the first n bytes of src
MemcpyIn(acc, at, src, n) ==
    [buf |-> [i \in 1..Len(acc.buf) |->
                IF i - 1 >= at /\ i - 1 < at + n THEN src[i - at] ELSE acc.buf[i]],
     hi |-> IF n > 0 THEN Max(acc.hi, at + n - 1) ELSE acc.hi]

(***************************************************************************)
(* realloc and reallocIfNeeded.  Both return the new mData and mMaxBits;   *)
(* fill is the content of the bytes bs_allocN returns, or NoMemory when    *)
(* bs_allocN fails: the failure is propagated from line 361 and the call   *)
(* ends there (oom).  events are the steps taken on the heap, in order:    *)
(* "alloc" (bs_allocN returned a buffer), "copy" (memcpy read the old      *)
(* buffer), "free" (bs_free of the old buffer).                            *)
(***************************************************************************)
\* The result of a call that leaves the buffer alone.
NoRealloc(data, maxBits, failed) ==
    [mData |-> data, mMaxBits |-> maxBits, allocated |-> FALSE,
     failed |-> failed, oom |-> FALSE, events |-> << >>]

\* Variant of realloc: the old buffer released first, before bs_allocN.
M_realloc_FreeFirst(data, maxBits, numBitsArg, fill) ==
    LET numBits == DivideAndRoundUp(numBitsArg, BITS_PER_QUANT) * BITS_PER_QUANT
        numQuants == DivideAndRoundUp(numBits, BITS_PER_QUANT)
        numBytes == DivideAndRoundUp(maxBits, BITS_PER_QUANT) * BYTES_PER_QUANT
    IN  IF numBits # maxBits
        THEN IF fill = NoMemory
             THEN [mData |-> data, mMaxBits |-> maxBits, allocated |-> FALSE,
                   failed |-> FALSE, oom |-> TRUE,
                   events |-> IF data # << >> THEN <<"free">> ELSE << >>]
             ELSE [mData |-> [i \in 1..numQuants |->
                                IF data # << >> /\ i <= numBytes
                                THEN data[i] ELSE fill],
                   mMaxBits |-> numBits, allocated |-> TRUE, failed |-> FALSE,
                   oom |-> FALSE,
                   events |-> IF data # << >> THEN <<"free", "alloc", "copy">>
                              ELSE <<"alloc">>]
        ELSE NoRealloc(data, maxBits, FALSE)

\* Variant of realloc: the request is not rounded up to whole quants.
M_realloc_NoRounding(data, maxBits, numBitsArg, fill) ==
    LET numBits == numBitsArg
        numQuants == DivideAndRoundUp(numBits, BITS_PER_QUANT)
        numBytes == DivideAndRoundUp(maxBits, BITS_PER_QUANT) * BYTES_PER_QUANT
    IN  IF numBits # maxBits
        THEN [mData |-> [i \in 1..numQuants |->
                            IF data # << >> /\ i <= numBytes THEN data[i] ELSE fill],
              mMaxBits |-> numBits, allocated |-> TRUE, failed |-> FALSE,
              oom |-> FALSE,
              events |-> IF data # << >> THEN <<"alloc", "copy", "free">>
                         ELSE <<"alloc">>]
        ELSE NoRealloc(data, maxBits, FALSE)

\* assert(numBits > mMaxBits) cannot fail: the constructor calls realloc on
\* mMaxBits = 0 and reallocIfNeeded passes more than numBits > mMaxBits
\* (32-bit sums do not wrap below MaxBits).
realloc(data, maxBits, numBitsArg, fill) ==
    LET numBits == DivideAndRoundUp(numBitsArg, BITS_PER_QUANT) * BITS_PER_QUANT
        numQuants == DivideAndRoundUp(numBits, BITS_PER_QUANT)
        numBytes == DivideAndRoundUp(maxBits, BITS_PER_QUANT) * BYTES_PER_QUANT
    IN  IF numBits # maxBits
        THEN IF fill = NoMemory
             THEN [mData |-> data, mMaxBits |-> maxBits, allocated |-> FALSE,
                   failed |-> FALSE, oom |-> TRUE, events |-> << >>]
             ELSE [mData |-> [i \in 1..numQuants |->
                                IF data # << >> /\ i <= numBytes
                                THEN data[i] ELSE fill],
                   mMaxBits |-> numBits, allocated |-> TRUE, failed |-> FALSE,
                   oom |-> FALSE,
                   events |-> IF data # << >> THEN <<"alloc", "copy", "free">>
                              ELSE <<"alloc">>]
        ELSE NoRealloc(data, maxBits, FALSE)

\* Variant of reallocIfNeeded: the comparison of line 334 inverted.
M_reallocIfNeeded_Inverted(data, maxBits, owns, numBits, fill) ==
    IF numBits < maxBits /\ owns
    THEN realloc(data, maxBits,
                 numBits + 4 * BITS_PER_QUANT + numBits \div 2, fill)
    ELSE NoRealloc(data, maxBits, numBits < maxBits)

\* Variant of reallocIfNeeded: no assert in the external-memory branch.
M_reallocIfNeeded_NoAssert(data, maxBits, owns, numBits, fill) ==
    IF numBits > maxBits /\ owns
    THEN realloc(data, maxBits,
                 numBits + 4 * BITS_PER_QUANT + numBits \div 2, fill)
    ELSE NoRealloc(data, maxBits, FALSE)

\* Variant of reallocIfNeeded: the request grows by half, without the four
\* quants of slack.
M_reallocIfNeeded_NoSlack(data, maxBits, owns, numBits, fill) ==
    IF numBits > maxBits
    THEN IF owns
         THEN realloc(data, maxBits, numBits + numBits \div 2, fill)
         ELSE NoRealloc(data, maxBits, TRUE)
    ELSE NoRealloc(data, maxBits, FALSE)

\* failed: the assert(false) of the external-memory branch was reached.
reallocIfNeeded(data, maxBits, owns, numBits, fill) ==
    IF numBits > maxBits
    THEN IF owns
         THEN realloc(data, maxBits,
                      numBits + 4 * BITS_PER_QUANT + numBits \div 2, fill)
         ELSE NoRealloc(data, maxBits, TRUE)
    ELSE NoRealloc(data, maxBits, FALSE)

(***************************************************************************)
(* The data path of writeBits (lines 196-225): the buffer after writing    *)
(* count bits of src at bit position cursor.                               *)
(***************************************************************************)
\* uint32_t destMask = (1 << BITS_PER_QUANT) - 1;
destMask == Pow2(BITS_PER_QUANT) - 1

\* A load from outside the buffer only feeds a store to the same index, which
\* is outside too: its value (0 here) reaches no state.
RECURSIVE WriteLoop(_, _, _, _, _, _)
\* Variant of WriteLoop: the store to mData[destQuant + 1] made in every
\* iteration, without the test count > writtenBits.
M_WriteLoop_AlwaysSpill(acc, src, si, destQuant, count, destBitsMod) ==
    IF count = 0 THEN acc
    ELSE LET quant == src[si]
             low == ToQuant(BitOr(quant * Pow2(destBitsMod),
                                  BitAnd(LoadQ(acc.buf, destQuant, 0), destMask)))
             acc1 == StoreQ(acc, destQuant, low)
             writtenBits == BITS_PER_QUANT - destBitsMod
             high == ToQuant(BitOr(quant \div Pow2(writtenBits),
                                   BitAndNot(LoadQ(acc1.buf, destQuant + 1, 0),
                                             destMask)))
             acc2 == StoreQ(acc1, destQuant + 1, high)
         IN  WriteLoop(acc2, src, si + 1, destQuant + 1,
                       count - Min(BITS_PER_QUANT, count), destBitsMod)

WriteLoop(acc, src, si, destQuant, count, destBitsMod) ==
    IF count = 0 THEN acc
    ELSE LET quant == src[si]
             low == ToQuant(BitOr(quant * Pow2(destBitsMod),
                                  BitAnd(LoadQ(acc.buf, destQuant, 0), destMask)))
             acc1 == StoreQ(acc, destQuant, low)
             writtenBits == BITS_PER_QUANT - destBitsMod
             high == ToQuant(BitOr(quant \div Pow2(writtenBits),
                                   BitAndNot(LoadQ(acc1.buf, destQuant + 1, 0),
                                             destMask)))
             acc2 == IF count > writtenBits
                     THEN StoreQ(acc1, destQuant + 1, high)
                     ELSE acc1
         IN  WriteLoop(acc2, src, si + 1, destQuant + 1,
                       count - Min(BITS_PER_QUANT, count), destBitsMod)

WriteData(buf, cursor, src, count) ==
    LET destBitsMod == cursor % BITS_PER_QUANT
        destQuant == cursor \div Pow2(BITS_PER_QUANT_LOG2)
        acc0 == [buf |-> buf, hi |-> -1]
        numQuants == count \div Pow2(BITS_PER_QUANT_LOG2)
    IN  IF destBitsMod = 0
        THEN WriteLoop(MemcpyIn(acc0, destQuant, src, numQuants * BYTES_PER_QUANT),
                       src, numQuants + 1, destQuant + numQuants,
                       count - numQuants * BITS_PER_QUANT, destBitsMod)
        ELSE WriteLoop(acc0, src, 1, destQuant, count, destBitsMod)

(***************************************************************************)
(* The data path of readBits (lines 239-268): the destination buffer after *)
(* reading count bits at bit position cursor.                              *)
(***************************************************************************)
RECURSIVE ReadLoop(_, _, _, _, _, _)
ReadLoop(acc, buf, srcQuant, count, srcBitsMod, junk) ==
    IF count = 0 THEN acc
    ELSE LET q0 == LoadQ(buf, srcQuant, junk) \div Pow2(srcBitsMod)
             readBitsN == BITS_PER_QUANT - srcBitsMod
             q1 == IF count > readBitsN
                   THEN ToQuant(BitOr(q0, LoadQ(buf, srcQuant + 1, junk)
                                            * Pow2(readBitsN)))
                   ELSE q0
             acc1 == [dst |-> Append(acc.dst, q1),
                      hi |-> Max(acc.hi,
                                 IF count > readBitsN THEN srcQuant + 1 ELSE srcQuant)]
         IN  ReadLoop(acc1, buf, srcQuant + 1,
                      count - Min(BITS_PER_QUANT, count), srcBitsMod, junk)

ReadData(buf, cursor, count, junk) ==
    LET srcBitsMod == cursor % BITS_PER_QUANT
        srcQuant == cursor \div Pow2(BITS_PER_QUANT_LOG2)
        numQuants == count \div Pow2(BITS_PER_QUANT_LOG2)
        copied == [dst |-> [i \in 1..numQuants |-> LoadQ(buf, srcQuant + i - 1, junk)],
                   hi |-> IF numQuants > 0 THEN srcQuant + numQuants - 1 ELSE -1]
    IN  IF srcBitsMod = 0
        THEN ReadLoop(copied, buf, srcQuant + numQuants,
                      count - numQuants * BITS_PER_QUANT, srcBitsMod, junk)
        ELSE ReadLoop([dst |-> << >>, hi |-> -1], buf, srcQuant, count,
                      srcBitsMod, junk)

(***************************************************************************)
(* The calls.  Every call records itself in call and counts in ops; a call *)
(* whose assert fails aborts the program in a build with assertions and    *)
(* goes on, into undefined behaviour, in a build with NDEBUG.  A call in   *)
(* which bs_allocN fails ends at that point (oom).                         *)
(***************************************************************************)
Call(op, count, arg, src, dst, hi, viol, alloc) ==
    [op |-> op, count |-> count, arg |-> arg, src |-> src, dst |-> dst,
     hi |-> hi, viol |-> viol, alloc |-> alloc, oom |-> FALSE,
     events |-> << >>,
     preCursor |-> mCursor, preNumBits |-> mNumBits, preMaxBits |-> mMaxBits]

\* A call that went through reallocIfNeeded, with what that did on the heap.
CallR(op, count, arg, src, hi, r) ==
    [Call(op, count, arg, src, << >>, hi, r.failed, r.allocated)
        EXCEPT !.oom = r.oom, !.events = r.events]

Abort == trapped' = TRUE /\ UNCHANGED <<stream, ub>>

\* Bitstream() = default, with the member initialisers of lines 160-165
Bitstream_default ==
    /\ mData = << >> /\ mMaxBits = 0 /\ mNumBits = 0
    /\ mOwnsMemory = TRUE /\ mCursor = 0
    /\ ctor = [kind |-> "default", arg |-> 0] /\ allocs = 0 /\ bufId = 0

\* Variant of Bitstream_capacity: the reserve taken as a number of bits.
M_Bitstream_capacity_InBits(capacity, fill) ==
    LET r == realloc(<< >>, 0, capacity, fill)
    IN  /\ mData = r.mData /\ mMaxBits = r.mMaxBits /\ mNumBits = 0
        /\ mOwnsMemory = TRUE /\ mCursor = 0
        /\ ctor = [kind |-> "capacity", arg |-> capacity]
        /\ allocs = (IF r.allocated THEN 1 ELSE 0) /\ bufId = allocs

\* Bitstream(uint32_t capacity)
Bitstream_capacity(capacity, fill) ==
    LET r == realloc(<< >>, 0, capacity * 8, fill)
    IN  /\ mData = r.mData /\ mMaxBits = r.mMaxBits /\ mNumBits = 0
        /\ mOwnsMemory = TRUE /\ mCursor = 0
        /\ ctor = [kind |-> "capacity", arg |-> capacity]
        /\ allocs = (IF r.allocated THEN 1 ELSE 0) /\ bufId = allocs

\* Bitstream(QuantType* data, uint32_t count): data holds the bytes of count
\* bits, with the content the caller left in them.
Bitstream_external(count, fill) ==
    /\ mData = [i \in 1..DivideAndRoundUp(count, BITS_PER_QUANT) |-> fill]
    /\ mMaxBits = count /\ mNumBits = count
    /\ mOwnsMemory = FALSE /\ mCursor = 0
    /\ ctor = [kind |-> "external", arg |-> count] /\ allocs = 0 /\ bufId = 0

\* Variant of NewNumBits: the size follows the cursor, without std::max.
M_NewNumBits_NoMax(numBits, newCursor) == newCursor

\* mNumBits = std::max(mNumBits, newCursor)
NewNumBits(numBits, newCursor) == Max(numBits, newCursor)

\* void writeBits(const QuantType* data, uint32_t count)
writeBits(data, count, fill) ==
    LET newCursor == mCursor + count
        r == reallocIfNeeded(mData, mMaxBits, mOwnsMemory, newCursor, fill)
        w == WriteData(r.mData, mCursor, data, count)
    IN  IF count = 0
        THEN /\ UNCHANGED <<stream, trapped, ub>>
             /\ call' = Call("writeBits", count, 0, data, << >>, -1, FALSE, FALSE)
        ELSE IF r.failed /\ ~ndebug
        THEN /\ Abort
             /\ call' = Call("writeBits", count, 0, data, << >>, -1, TRUE, FALSE)
        ELSE IF r.oom
        THEN /\ mData' = r.mData
             /\ mMaxBits' = r.mMaxBits
             /\ UNCHANGED <<mCursor, mNumBits, mOwnsMemory, trapped, ub>>
             /\ call' = CallR("writeBits", count, 0, data, -1, r)
        ELSE /\ mData' = w.buf
             /\ mMaxBits' = r.mMaxBits
             /\ mCursor' = newCursor
             /\ mNumBits' = NewNumBits(mNumBits, newCursor)
             /\ ub' = r.failed
             /\ UNCHANGED <<mOwnsMemory, trapped>>
             /\ call' = CallR("writeBits", count, 0, data, w.hi, r)

\* Variant of ReadPastEnd: the assert compares with < instead of <=.
M_ReadPastEnd_OffByOne(cursor, count, numBits) == ~((cursor + count) < numBits)

\* assert((mCursor + count) <= mNumBits) fails
ReadPastEnd(cursor, count, numBits) == ~((cursor + count) <= numBits)

\* void readBits(QuantType* data, uint32_t count)
readBits(count, junk) ==
    LET viol == ReadPastEnd(mCursor, count, mNumBits)
        newCursor == mCursor + count
        rd == ReadData(mData, mCursor, count, junk)
    IN  IF count = 0
        THEN /\ UNCHANGED <<stream, trapped, ub>>
             /\ call' = Call("readBits", count, 0, << >>, << >>, -1, FALSE, FALSE)
        ELSE IF viol /\ ~ndebug
        THEN /\ Abort
             /\ call' = Call("readBits", count, 0, << >>, << >>, -1, TRUE, FALSE)
        ELSE /\ mCursor' = newCursor
             /\ ub' = viol
             /\ UNCHANGED <<mData, mMaxBits, mNumBits, mOwnsMemory, trapped>>
             /\ call' = Call("readBits", count, 0, << >>, rd.dst, rd.hi, viol, FALSE)

\* Variant of BoolQuant: false stored with &= (1U << destBitsMod), without
\* the complement.
M_BoolQuant_NoComplement(old, destBitsMod, value) ==
    IF value
    THEN ToQuant(BitOr(old, Pow2(destBitsMod)))
    ELSE ToQuant(BitAnd(old, Pow2(destBitsMod)))

\* mData[destQuant] |= 1U << destBitsMod, or &= ~(1U << destBitsMod): the new
\* byte, from the old one
BoolQuant(old, destBitsMod, value) ==
    IF value
    THEN ToQuant(BitOr(old, Pow2(destBitsMod)))
    ELSE ToQuant(BitAndNot(old, Pow2(destBitsMod)))

\* void write(const bool& value)
write_bool(value, fill) ==
    LET r == reallocIfNeeded(mData, mMaxBits, mOwnsMemory, mCursor + 1, fill)
        destBitsMod == mCursor % BITS_PER_QUANT
        destQuant == mCursor \div Pow2(BITS_PER_QUANT_LOG2)
        old == LoadQ(r.mData, destQuant, 0)
        new == BoolQuant(old, destBitsMod, value)
        w == StoreQ([buf |-> r.mData, hi |-> -1], destQuant, new)
        arg == IF value THEN 1 ELSE 0
    IN  IF r.failed /\ ~ndebug
        THEN /\ Abort
             /\ call' = Call("write(bool)", 1, arg, << >>, << >>, -1, TRUE, FALSE)
        ELSE IF r.oom
        THEN /\ mData' = r.mData
             /\ mMaxBits' = r.mMaxBits
             /\ UNCHANGED <<mCursor, mNumBits, mOwnsMemory, trapped, ub>>
             /\ call' = CallR("write(bool)", 1, arg, << >>, -1, r)
        ELSE /\ mData' = w.buf
             /\ mMaxBits' = r.mMaxBits
             /\ mCursor' = mCursor + 1
             /\ mNumBits' = NewNumBits(mNumBits, mCursor + 1)
             /\ ub' = r.failed
             /\ UNCHANGED <<mOwnsMemory, trapped>>
             /\ call' = CallR("write(bool)", 1, arg, << >>, w.hi, r)

\* void read(bool& value)
read_bool(junk) ==
    LET viol == ReadPastEnd(mCursor, 1, mNumBits)
        srcBitsMod == mCursor % BITS_PER_QUANT
        srcQuant == mCursor \div Pow2(BITS_PER_QUANT_LOG2)
        value == BitAnd(LoadQ(mData, srcQuant, junk) \div Pow2(srcBitsMod), 1)
    IN  IF viol /\ ~ndebug
        THEN /\ Abort
             /\ call' = Call("read(bool)", 1, 0, << >>, << >>, -1, TRUE, FALSE)
        ELSE /\ mCursor' = mCursor + 1
             /\ ub' = viol
             /\ UNCHANGED <<mData, mMaxBits, mNumBits, mOwnsMemory, trapped>>
             /\ call' = Call("read(bool)", 1, 0, << >>, <<value>>, srcQuant, viol,
                             FALSE)

(***************************************************************************)
(* skip, seek, align.                                                      *)
(*                                                                         *)
(* skip adds in int32_t.  mCursor stays below 2^31 here, so the cast of    *)
(* mCursor is its value and the sum can only overflow upwards.  Signed     *)
(* overflow is undefined: the build either wraps (two's complement) or     *)
(* traps (-ftrapv, a sanitizer).                                           *)
(***************************************************************************)
SkipOverflows(cursor, count) == count > 0 /\ cursor > MaxInt32 - count

\* (int32_t)mCursor + count, wrapped to 32 bits
Int32Add(cursor, count) ==
    IF SkipOverflows(cursor, count)
    THEN MinInt32 + (cursor - (MaxInt32 - count) - 1)
    ELSE cursor + count

\* Variant of SkipCursor: clamped at 0 only, not at the capacity.
M_SkipCursor_NoUpperClamp(cursor, maxBits, count) ==
    Max(Int32Add(cursor, count), 0)

\* Math::clamp((int32_t)mCursor + count, 0, (int32_t)mMaxBits)
SkipCursor(cursor, maxBits, count) == Clamp(Int32Add(cursor, count), 0, maxBits)

\* void skip(int32_t count)
skip(count, ftrapv) ==
    LET overflow == SkipOverflows(mCursor, count)
    IN  IF overflow /\ ftrapv
        THEN /\ trapped' = TRUE /\ ub' = TRUE /\ UNCHANGED stream
             /\ call' = Call("skip", 0, count, << >>, << >>, -1, FALSE, FALSE)
        ELSE /\ mCursor' = SkipCursor(mCursor, mMaxBits, count)
             /\ ub' = overflow
             /\ UNCHANGED <<mData, mMaxBits, mNumBits, mOwnsMemory, trapped>>
             /\ call' = Call("skip", 0, count, << >>, << >>, -1, FALSE, FALSE)

\* Variant of SeekCursor: the position is clamped to the size.
M_SeekCursor_ClampToSize(pos, maxBits, numBits) == Min(pos, numBits)

\* std::min(pos, mMaxBits); mNumBits plays no part
SeekCursor(pos, maxBits, numBits) == Min(pos, maxBits)

\* void seek(uint32_t pos)
seek(pos) ==
    /\ mCursor' = SeekCursor(pos, mMaxBits, mNumBits)
    /\ UNCHANGED <<mData, mMaxBits, mNumBits, mOwnsMemory, trapped, ub>>
    /\ call' = Call("seek", 0, pos, << >>, << >>, -1, FALSE, FALSE)

\* Variant of AlignSkip: the distance taken from mCursor itself, so that an
\* aligned cursor is moved on by a whole unit.
M_AlignSkip_FromCursor(cursor, count) ==
    LET bits == count * 8
    IN  bits - BitAnd(cursor, bits - 1)

\* (mCursor - 1) & (bits - 1) in uint32_t.  mCursor - 1 wraps to 2^32 - 1 at
\* mCursor = 0; the mask bits - 1 is below 2^30 here, so only the bits of
\* mCursor - 1 below bit 30 meet it, and those are (mCursor - 1) mod 2^30.
AlignSkip(cursor, count) ==
    LET bits == count * 8
    IN  bits - (BitAnd((cursor - 1) % Pow2(30), bits - 1) + 1)

\* void align(uint32_t count)
align(count) ==
    IF count = 0
    THEN /\ UNCHANGED <<stream, trapped, ub>>
         /\ call' = Call("align", 0, count, << >>, << >>, -1, FALSE, FALSE)
    ELSE /\ mCursor' = SkipCursor(mCursor, mMaxBits, AlignSkip(mCursor, count))
         /\ UNCHANGED <<mData, mMaxBits, mNumBits, mOwnsMemory, trapped, ub>>
         /\ call' = Call("align", 0, count, << >>, << >>, -1, FALSE, FALSE)

\* tell(), size(), capacity(), data(): what the const accessors return
Tell == mCursor
Size == mNumBits
Capacity == mMaxBits
Data == mData

\* Variant of Eof: true only past the end.
M_Eof_Strict == mCursor > mNumBits

\* bool eof() const { return mCursor >= mNumBits; }
Eof == mCursor >= mNumBits

\* One call of each accessor; the call record holds what they returned:
\* eof() in arg (1 for true), data() in src, tell(), size(), capacity() in dst.
accessors ==
    /\ UNCHANGED <<stream, trapped, ub>>
    /\ call' = Call("accessors", 0, IF Eof THEN 1 ELSE 0, Data,
                    <<Tell, Size, Capacity>>, -1, FALSE, FALSE)

\* Variant of DestructorFrees: the buffer is released whoever owns it.
M_DestructorFrees_NoOwnerCheck(data, owns) == data # << >>

\* if (mData && mOwnsMemory)
DestructorFrees(data, owns) == data # << >> /\ owns

\* ~Bitstream()
Bitstream_dtor ==
    /\ released' = IF DestructorFrees(mData, mOwnsMemory)
                   THEN Append(released, bufId) ELSE released
    /\ destroyed' = TRUE
    /\ UNCHANGED <<stream, trapped, ub, bufId, uaf>>
    /\ call' = Call("~Bitstream", 0, 0, << >>, << >>, -1, FALSE, FALSE)

(***************************************************************************)
(* The general specification: a stream built by one of the constructors,   *)
(* in either build, and up to MaxOps calls on it.  A program that was      *)
(* aborted or has run into undefined behaviour makes no further call, and  *)
(* none is made on a destroyed stream.                                     *)
(***************************************************************************)
Alive == ~trapped /\ ~ub /\ ~destroyed
Running == pc = "run" /\ Alive /\ ~call.oom /\ ops < MaxOps

\* No call has been made on the new stream.
NoCall ==
    [op |-> "none", count |-> 0, arg |-> 0, src |-> << >>, dst |-> << >>,
     hi |-> -1, viol |-> FALSE, alloc |-> FALSE, oom |-> FALSE,
     events |-> << >>,
     preCursor |-> 0, preNumBits |-> 0, preMaxBits |-> 0]

Constructed ==
    /\ trapped = FALSE /\ ub = FALSE /\ ops = 0 /\ call = NoCall
    /\ released = << >> /\ uaf = FALSE /\ destroyed = FALSE

\* Event e is among the events before position n.
Before(events, n, e) == \E i \in 1..(n - 1) : events[i] = e

\* Bookkeeping of a call: it is counted, and so are the buffer it allocated
\* (the one mData points to from then on), the buffer it released and an
\* access it made to a released buffer: the memcpy from the old buffer
\* after its bs_free, or the call's loads and stores after the realloc.
Tick ==
    /\ ops' = ops + 1
    /\ allocs' = allocs + (IF call'.alloc THEN 1 ELSE 0)
    /\ bufId' = IF call'.alloc THEN allocs + 1 ELSE bufId
    /\ released' = IF Before(call'.events, Len(call'.events) + 1, "free")
                   THEN Append(released, bufId) ELSE released
    /\ uaf' = \/ uaf
              \/ \E n \in 1..Len(call'.events) :
                    call'.events[n] = "copy" /\ Before(call'.events, n, "free")
              \/ call'.hi >= 0 /\ \E i \in 1..Len(released') :
                                     released'[i] = bufId'
    /\ UNCHANGED <<ndebug, ctor, destroyed>>

\* The fill of a fresh allocation matters only when the call allocates.
Fills(numBits) == IF mOwnsMemory /\ numBits > mMaxBits THEN FillBytes ELSE {0}
\* The byte a load outside the buffer yields matters only when there is one.
Junks(numBits) == IF numBits > Len(mData) * BITS_PER_QUANT THEN FillBytes ELSE {0}

Init ==
    /\ \/ Bitstream_default
       \/ \E capacity \in ReserveBytes, fill \in FillBytes :
             Bitstream_capacity(capacity, fill)
       \/ \E count \in ExternalBits, fill \in FillBytes :
             Bitstream_external(count, fill)
    /\ ndebug \in BOOLEAN
    /\ Constructed
    /\ pc = "run" /\ fields = << >> /\ got = << >> /\ ri = 0

Count == Tick /\ UNCHANGED scenario

DoWriteBits ==
    \E first \in SrcFirst, count \in Counts :
        \E fill \in Fills(mCursor + count) :
            /\ Running /\ mCursor + count <= MaxBits
            /\ writeBits(Source(first, count), count, fill) /\ Count

DoReadBits ==
    \E count \in Counts : \E junk \in Junks(mCursor + count) :
        Running /\ readBits(count, junk) /\ Count

DoWriteBool ==
    \E value \in BOOLEAN : \E fill \in Fills(mCursor + 1) :
        /\ Running /\ mCursor + 1 <= MaxBits
        /\ write_bool(value, fill) /\ Count

DoReadBool ==
    \E junk \in Junks(mCursor + 1) : Running /\ read_bool(junk) /\ Count

DoSkip ==
    \E count \in SkipCounts :
        \E ftrapv \in (IF SkipOverflows(mCursor, count) THEN BOOLEAN ELSE {FALSE}) :
            Running /\ skip(count, ftrapv) /\ Count

DoSeek == \E pos \in SeekPositions : Running /\ seek(pos) /\ Count

DoAlign == \E count \in AlignCounts : Running /\ align(count) /\ Count

DoAccessors == Running /\ accessors /\ Count

Next ==
    \/ DoWriteBits \/ DoReadBits \/ DoWriteBool \/ DoReadBool
    \/ DoSkip \/ DoSeek \/ DoAlign \/ DoAccessors

Spec == Init /\ [][Next]_vars

(***************************************************************************)
(* The round-trip specification: a self-owned stream, up to MaxFields      *)
(* fields written one after the other, then a seek to the start of one of  *)
(* them and the fields read back in order from there.  No assert fails in  *)
(* it, so one build stands for both.                                       *)
(***************************************************************************)
RTCounts == {3, 5, 8, 40, 64}
RTSrcFirst == {0, 5, 26, 255}

InitRT ==
    /\ \/ Bitstream_default
       \/ Bitstream_capacity(0, 0)
    /\ ndebug = FALSE
    /\ Constructed
    /\ pc = "write" /\ fields = << >> /\ got = << >> /\ ri = 0

RTWrite ==
    \E first \in RTSrcFirst, count \in RTCounts :
        \E fill \in Fills(mCursor + count) :
            /\ pc = "write" /\ Len(fields) < MaxFields
            /\ writeBits(Source(first, count), count, fill) /\ Tick
            /\ fields' = Append(fields, [start |-> mCursor, count |-> count,
                                         src |-> Source(first, count)])
            /\ UNCHANGED <<pc, got, ri>>

RTSeek ==
    \E i \in 1..Len(fields) :
        /\ pc = "write"
        /\ seek(fields[i].start) /\ Tick
        /\ pc' = "read" /\ ri' = i
        /\ UNCHANGED <<fields, got>>

RTRead ==
    /\ pc = "read" /\ ri <= Len(fields)
    /\ readBits(fields[ri].count, 0) /\ Tick
    /\ got' = Append(got, call'.dst)
    /\ ri' = ri + 1
    /\ UNCHANGED <<pc, fields>>

NextRT == RTWrite \/ RTSeek \/ RTRead

SpecRT == InitRT /\ [][NextRT]_vars

(***************************************************************************)
(* The overwrite specification: a stream with MaxReserve bytes reserved,   *)
(* the cursor put at a position p, a field a of n bits written there, the  *)
(* cursor put back at p, a field b of n bits written over a, the cursor    *)
(* put back at p and n bits read.  Both writes are recorded in fields and  *)
(* the destination of the read in got.                                     *)
(***************************************************************************)
OWPositions == {0, 3, 8, 13}
OWCounts == {3, 8, 11, 16}

InitOW ==
    /\ \E fill \in FillBytes : Bitstream_capacity(MaxReserve, fill)
    /\ ndebug = FALSE
    /\ Constructed
    /\ pc = "ow_seek" /\ fields = << >> /\ got = << >> /\ ri = 0

OWSeek ==
    \E pos \in OWPositions :
        /\ pc = "ow_seek"
        /\ seek(pos) /\ Tick
        /\ pc' = "ow_write"
        /\ UNCHANGED <<fields, got, ri>>

OWWrite ==
    \E first \in RTSrcFirst, count \in OWCounts :
        /\ pc = "ow_write"
        /\ fields # << >> => count = fields[1].count
        /\ writeBits(Source(first, count), count, 0) /\ Tick
        /\ fields' = Append(fields, [start |-> mCursor, count |-> count,
                                     src |-> Source(first, count)])
        /\ pc' = "ow_back"
        /\ UNCHANGED <<got, ri>>

OWBack ==
    /\ pc = "ow_back"
    /\ seek(fields[1].start) /\ Tick
    /\ pc' = IF Len(fields) < 2 THEN "ow_write" ELSE "ow_read"
    /\ UNCHANGED <<fields, got, ri>>

OWRead ==
    /\ pc = "ow_read"
    /\ readBits(fields[1].count, 0) /\ Tick
    /\ got' = Append(got, call'.dst)
    /\ pc' = "ow_done"
    /\ UNCHANGED <<fields, ri>>

NextOW == OWSeek \/ OWWrite \/ OWBack \/ OWRead

SpecOW == InitOW /\ [][NextOW]_vars

(***************************************************************************)
(* The heap specification: a stream built by one of the constructors, up   *)
(* to MaxOps writes and seeks on it, and its destruction after any of      *)
(* them.  bs_allocN may fail whenever a write has to grow the buffer;      *)
(* after a failed call the stream is only destroyed.                       *)
(***************************************************************************)
\* What bs_allocN does in a call that allocates: memory of either fill, or
\* a failure.
AllocOutcomes(numBits) ==
    IF mOwnsMemory /\ numBits > mMaxBits THEN FillBytes \cup {NoMemory} ELSE {0}

HeapWriteBits ==
    \E first \in SrcFirst, count \in Counts :
        \E fill \in AllocOutcomes(mCursor + count) :
            /\ Running /\ mCursor + count <= MaxBits
            /\ writeBits(Source(first, count), count, fill) /\ Count

HeapWriteBool ==
    \E value \in BOOLEAN : \E fill \in AllocOutcomes(mCursor + 1) :
        /\ Running /\ mCursor + 1 <= MaxBits
        /\ write_bool(value, fill) /\ Count

\* The stream goes out of scope, after any number of calls.
DoDestroy ==
    /\ pc = "run" /\ Alive
    /\ Bitstream_dtor
    /\ UNCHANGED <<ndebug, ctor, ops, allocs, scenario>>

NextHeap == HeapWriteBits \/ HeapWriteBool \/ DoSeek \/ DoDestroy

SpecHeap == Init /\ [][NextHeap]_vars

(***************************************************************************)
(* The alignment specification: a stream of any capacity up to MaxReserve  *)
(* bytes (or an external buffer), the cursor put anywhere by one seek, and *)
(* then up to two calls of align, each recorded in fields with the cursor  *)
(* it started at and its byteCount.                                        *)
(***************************************************************************)
InitAlign ==
    /\ \/ \E capacity \in 0..MaxReserve : Bitstream_capacity(capacity, 0)
       \/ \E count \in ExternalBits : Bitstream_external(count, 0)
    /\ ndebug = FALSE
    /\ Constructed
    /\ pc = "align" /\ fields = << >> /\ got = << >> /\ ri = 0

ALSeek ==
    \E pos \in 0..(MaxReserve * BITS_PER_QUANT + 1) :
        /\ pc = "align" /\ ops = 0
        /\ seek(pos) /\ Count

ALAlign ==
    \E count \in 0..MaxAlign :
        /\ pc = "align" /\ Len(fields) < 2
        /\ align(count) /\ Tick
        /\ fields' = Append(fields, [start |-> mCursor, count |-> count,
                                     src |-> << >>])
        /\ UNCHANGED <<pc, got, ri>>

NextAlign == ALSeek \/ ALAlign

SpecAlign == InitAlign /\ [][NextAlign]_vars

(***************************************************************************)
(* Properties.                                                             *)
(***************************************************************************)
\* Bits 0..n-1 of two byte sequences agree.
SameBits(a, b, n) == \A i \in 0..(n - 1) : BitOf(a, i) = BitOf(b, i)

\* The value of a field's source is a count-bit value: one byte, no bit set
\* at or above bit count.
IsValue(f) == Len(f.src) = 1 /\ f.src[1] < Pow2(f.count)

\* Round trip: the field that destination got[j] was read from.
FieldRead(j) == ri - Len(got) + j - 1

\* C1: round trip when appending.  On a self-owned stream in which exactly
\* k bits (k in 0..7) were written before, writeBits(v, n); seek(k);
\* readBits(v2, n) delivers in bits 0..n-1 of v2 the bits 0..n-1 of v.
C1_RoundTripAppend ==
    (/\ pc = "read" /\ Len(got) = 1
     /\ FieldRead(1) = Len(fields)
     /\ fields[Len(fields)].start <= 7)
    => SameBits(got[1], fields[Len(fields)].src, fields[Len(fields)].count)

\* C2: writeBits(source, n) with n > 0 at cursor c changes only the stream
\* bits at positions c .. c+n-1: every other bit of the buffer keeps its
\* value, whatever the source bytes hold at and above bit n.
C2_WriteChangesOnlyRange ==
    [][(call'.op = "writeBits" /\ call'.count > 0 /\ ~call'.viol)
       => \A p \in 0..(Len(mData) * BITS_PER_QUANT - 1) :
             (p < mCursor \/ p >= mCursor + call'.count)
             => BitOf(mData', p) = BitOf(mData, p)]_vars

\* C3: consecutive sub-byte fields.  On a stream constructed with reserve 0,
\* writing an a-bit value x, then a b-bit value y, then seek(0), readBits of
\* a bits and readBits of b bits yields destinations equal to x and to y,
\* and afterwards tell() = size() = a + b.
C3_SubByteFields ==
    (/\ ctor = [kind |-> "capacity", arg |-> 0]
     /\ pc = "read" /\ Len(fields) = 2 /\ Len(got) = 2
     /\ fields[1].count + fields[2].count <= BITS_PER_QUANT
     /\ IsValue(fields[1]) /\ IsValue(fields[2]))
    => /\ got[1] = fields[1].src
       /\ got[2] = fields[2].src
       /\ mCursor = fields[1].count + fields[2].count
       /\ mNumBits = fields[1].count + fields[2].count

\* C7: growth preserves content.  A write that reallocates leaves every bit
\* below the old capacity, outside the range it writes, as it was; and after
\* appends that forced three or more reallocations, seek(0) and reading the
\* written fields back reproduces every written bit.
C7_GrowthPreservesContent ==
    [][/\ (call'.op = "writeBits" /\ call'.alloc)
          => \A p \in 0..(mMaxBits - 1) :
                (p < mCursor \/ p >= mCursor + call'.count)
                => BitOf(mData', p) = BitOf(mData, p)
       /\ (pc' = "read" /\ allocs' >= 3 /\ Len(got') = Len(fields'))
          => \A j \in 1..Len(got') :
                SameBits(got'[j], fields'[j].src, fields'[j].count)]_vars

\* C4: in every state reached by calls that respect the documented
\* preconditions, size() <= capacity(), for self-owned and external streams.
C4_SizeWithinCapacity == ~call.viol => mNumBits <= mMaxBits

\* A write that had to grow the buffer: the size now exceeds the old capacity.
C4_Witness ==
    /\ call.op = "writeBits" /\ call.alloc /\ ~call.viol
    /\ mNumBits > call.preMaxBits /\ call.preMaxBits > 0

\* C5: in every state reached by calls that respect the documented
\* preconditions, 0 <= tell() <= capacity().
C5_CursorWithinCapacity == ~call.viol => (0 <= mCursor /\ mCursor <= mMaxBits)

\* A skip that asked for a position past the capacity of a non-empty buffer.
C5_Witness ==
    /\ call.op = "skip" /\ call.arg > 0 /\ call.arg < MaxInt32
    /\ call.preCursor + call.arg > mMaxBits
    /\ mMaxBits > 0 /\ mCursor = mMaxBits

\* C6: writeBits(source, n) with n > 0 on a self-owned stream succeeds and
\* leaves tell() = oldCursor + n and size() = max(oldSize, oldCursor + n),
\* growing the capacity first when oldCursor + n exceeds it; also when the
\* cursor was past size() before the write.
C6_WriteAdvancesAndExtends ==
    (call.op = "writeBits" /\ call.count > 0 /\ mOwnsMemory)
    => /\ ~trapped /\ ~ub
       /\ mCursor = call.preCursor + call.count
       /\ mNumBits = Max(call.preNumBits, call.preCursor + call.count)
       /\ mMaxBits >= mCursor
       /\ call.alloc <=> (call.preCursor + call.count > call.preMaxBits)

\* A write at a cursor that seek or skip had put past size(), and that grew
\* the buffer.
C6_Witness ==
    /\ call.op = "writeBits" /\ call.count > 0 /\ mOwnsMemory
    /\ call.preCursor > call.preNumBits /\ call.alloc

\* The calls that write, and a call of them that ends past the capacity.
WriteOps == {"writeBits", "write(bool)"}
WritesPastCapacity ==
    call'.op \in WriteOps /\ mCursor + call'.count > mMaxBits

\* C8 as claimed: an external-buffer stream never grows, and a writeBits or
\* write(bool) that ends past its capacity is stopped (assertion) before any
\* buffer byte is modified, with capacity(), size() and tell() unchanged.
C8_ExternalWriteStopped ==
    [][~mOwnsMemory
       => /\ mMaxBits = ctor.arg /\ mMaxBits' = ctor.arg
          /\ WritesPastCapacity => (trapped' /\ UNCHANGED stream)]_vars

\* C8 as amended: the capacity of an external-buffer stream never changes;
\* in a build with assertions (NDEBUG not defined) a write that ends past
\* the capacity is stopped before any buffer byte is modified, with
\* capacity(), size() and tell() unchanged.
C8_ExternalWriteStoppedWithAsserts ==
    [][~mOwnsMemory
       => /\ mMaxBits = ctor.arg /\ mMaxBits' = ctor.arg
          /\ (WritesPastCapacity /\ ~ndebug) => (trapped' /\ UNCHANGED stream)]_vars

\* 11 bits written at cursor 8 of an external buffer of 16 bits, stopped.
C8_Witness ==
    /\ ~mOwnsMemory /\ ctor.arg = 16 /\ trapped /\ ~ndebug
    /\ call.op = "writeBits" /\ call.viol
    /\ call.preCursor + call.count > mMaxBits

\* The calls that read, with the bits they read.
ReadCall == (call.op = "readBits" /\ call.count > 0) \/ call.op = "read(bool)"

\* C9 as claimed: readBits(dest, n) with n > 0 and read(bool) (n = 1) run
\* only when cursor + n <= size(); a call violating this is stopped with the
\* cursor unchanged, one satisfying it advances the cursor by exactly n.
C9_ReadChecked ==
    ReadCall
    => IF call.preCursor + call.count > call.preNumBits
       THEN trapped /\ mCursor = call.preCursor
       ELSE ~trapped /\ mCursor = call.preCursor + call.count

\* C9 as amended: in a build with assertions (NDEBUG not defined) a call
\* with cursor + n > size() is stopped with the cursor unchanged; a call with
\* cursor + n <= size() advances the cursor by exactly n in every build.
C9_ReadCheckedWithAsserts ==
    ReadCall
    => IF call.preCursor + call.count > call.preNumBits
       THEN ~ndebug => (trapped /\ mCursor = call.preCursor)
       ELSE ~trapped /\ mCursor = call.preCursor + call.count

\* A readBits past the end of written data, stopped.
C9_Witness ==
    /\ call.op = "readBits" /\ call.count > 0 /\ trapped /\ ~ndebug
    /\ call.preNumBits > 0
    /\ call.preCursor + call.count > call.preNumBits

\* clamp(cursor + count, 0, maxBits) in unbounded integers
ClampedSum(cursor, count, maxBits) ==
    IF count >= maxBits - cursor THEN maxBits
    ELSE IF count <= -cursor THEN 0
    ELSE cursor + count

\* C10: skip(delta) sets the cursor to clamp(oldCursor + delta, 0,
\* capacity()) for every signed delta, and changes neither capacity(), nor
\* size(), nor any buffer bit.
C10_SkipClamps ==
    [][call'.op = "skip"
       => /\ mCursor' = ClampedSum(mCursor, call'.arg, mMaxBits)
          /\ UNCHANGED <<mData, mMaxBits, mNumBits>>]_vars

\* C11: seek(pos) sets the cursor to min(pos, capacity()) for every unsigned
\* pos (to the capacity, not to the size), and changes neither capacity(),
\* nor size(), nor any buffer bit.
C11_SeekClampsToCapacity ==
    [][call'.op = "seek"
       => /\ mCursor' = (IF call'.arg < mMaxBits THEN call'.arg ELSE mMaxBits)
          /\ UNCHANGED <<mData, mMaxBits, mNumBits>>]_vars

\* A seek that asked for a position past the capacity and ended at the
\* capacity, past the size.
C11_Witness ==
    /\ call.op = "seek" /\ call.arg > mMaxBits
    /\ mCursor = mMaxBits /\ mNumBits > 0 /\ mNumBits < mMaxBits

\* The smallest multiple of unit that is >= cursor.
NextMultiple(cursor, unit) == ((cursor + unit - 1) \div unit) * unit

\* C12: align(byteCount), for every byteCount >= 1 (powers of two and other
\* values such as 3 alike), moves the cursor to the smallest multiple of
\* byteCount * 8 that is >= the old cursor, or to capacity() when that
\* multiple lies past the capacity; the cursor never moves backwards.
C12_AlignNextMultiple ==
    [][(call'.op = "align" /\ call'.arg >= 1)
       => /\ mCursor' = Min(NextMultiple(mCursor, call'.arg * 8), mMaxBits)
          /\ mCursor' >= mCursor]_vars

\* C13: align(byteCount) leaves the whole state unchanged when the cursor
\* is already a multiple of byteCount * 8 (cursor 0 and a cursor exactly on a
\* boundary included, for every byteCount >= 1), and align(0) leaves it
\* unchanged at every cursor: no extra alignment unit is skipped.
C13_AlignedIsNoOp ==
    [][(/\ call'.op = "align"
        /\ (call'.arg = 0 \/ mCursor % (call'.arg * 8) = 0))
       => UNCHANGED stream]_vars

\* C14: align(byteCount) twice in a row leaves the stream as align(byteCount)
\* once does, for every cursor, capacity and byteCount, also when the first
\* call was clamped to capacity().
C14_AlignIdempotent ==
    [][(call.op = "align" /\ call'.op = "align" /\ call'.arg = call.arg)
       => UNCHANGED stream]_vars

\* Two calls of align(3) from a cursor that is not aligned, the first of them
\* clamped to the capacity.
C14_Witness ==
    /\ pc = "align" /\ Len(fields) = 2
    /\ fields[1].count = 3 /\ fields[2].count = 3
    /\ fields[1].start % 24 # 0
    /\ NextMultiple(fields[1].start, 24) > mMaxBits
    /\ fields[2].start = mMaxBits /\ mCursor = mMaxBits

\* C15: write(bool b) at cursor c sets stream bit c to b and leaves every
\* other buffer bit as it was, also when bit c held the opposite value;
\* it advances the cursor by 1 and makes size() = max(oldSize, c + 1).
\* read(bool) at cursor c returns stream bit c and changes no buffer bit.
C15_BoolBitIsolation ==
    [][/\ (call'.op = "write(bool)" /\ ~call'.viol)
          => /\ BitOf(mData', mCursor) = call'.arg
             /\ \A p \in 0..(Len(mData) * BITS_PER_QUANT - 1) :
                   p # mCursor => BitOf(mData', p) = BitOf(mData, p)
             /\ mCursor' = mCursor + 1
             /\ mNumBits' = Max(mNumBits, mCursor + 1)
       /\ (call'.op = "read(bool)" /\ ~call'.viol)
          => /\ call'.dst = <<BitOf(mData, mCursor)>>
             /\ mData' = mData]_vars

\* false written over a bit that was 1, in a byte whose other bits are 1,
\* at a cursor that is not the first bit of its byte.
C15_Witness ==
    /\ call.op = "write(bool)" /\ call.arg = 0 /\ ~call.viol
    /\ call.preCursor % BITS_PER_QUANT > 0
    /\ mData[(call.preCursor \div BITS_PER_QUANT) + 1]
          = destMask - Pow2(call.preCursor % BITS_PER_QUANT)

\* C16: the capacity of a self-owned stream never decreases, every
\* reallocation makes it strictly larger, and capacity() is a multiple of 8
\* in every reachable state, the one right after construction with a
\* reserve of N bytes included.
C16_CapacityMonotone ==
    [][mOwnsMemory
       => /\ mMaxBits % BITS_PER_QUANT = 0 /\ mMaxBits' % BITS_PER_QUANT = 0
          /\ mMaxBits' >= mMaxBits
          /\ call'.alloc => mMaxBits' > mMaxBits]_vars

\* A write that replaced the buffer reserved at construction by a larger one.
C16_Witness ==
    /\ mOwnsMemory /\ ctor.kind = "capacity" /\ ctor.arg > 0
    /\ call.alloc /\ allocs = 2
    /\ call.preMaxBits = ctor.arg * BITS_PER_QUANT
    /\ mMaxBits > call.preMaxBits

\* The buffers released so far.
Released == {released[i] : i \in 1..Len(released)}

\* C17: every buffer the stream allocated is released exactly once, the
\* replaced buffer at a reallocation and the current one at destruction, and
\* is never accessed after its release; a buffer supplied by the caller is
\* never released by the stream.
C17_OwnedBuffersReleasedOnce ==
    /\ \A i, j \in 1..Len(released) : released[i] = released[j] => i = j
    /\ Released = (1..allocs) \ (IF destroyed THEN {} ELSE {bufId})
    /\ ~uaf
    /\ ~mOwnsMemory => (allocs = 0 /\ released = << >>)

\* A stream destroyed after a write replaced the buffer reserved at
\* construction: two buffers allocated, both released.
C17_Witness ==
    /\ destroyed /\ mOwnsMemory /\ allocs = 2 /\ Len(released) = 2
    /\ released[2] = bufId

\* C18: the default constructor gives capacity 0, size 0, cursor 0 and a
\* self-owned stream; the reserve constructor with N bytes gives capacity
\* exactly 8 * N, size 0, cursor 0 and a self-owned stream, and allocates
\* nothing for N = 0; the external-buffer constructor with bit count c gives
\* capacity = size = c (whether or not c is a multiple of 8), cursor 0 and a
\* stream that does not own its buffer.  No later call changes the ownership.
C18_ConstructionModes ==
    /\ mOwnsMemory = (ctor.kind # "external")
    /\ ops = 0
       => /\ mCursor = 0
          /\ ctor.kind = "default"
             => (mMaxBits = 0 /\ mNumBits = 0 /\ mData = << >> /\ allocs = 0)
          /\ ctor.kind = "capacity"
             => /\ mMaxBits = 8 * ctor.arg /\ mNumBits = 0
                /\ Len(mData) = ctor.arg
                /\ allocs = (IF ctor.arg = 0 THEN 0 ELSE 1)
          /\ ctor.kind = "external"
             => (mMaxBits = ctor.arg /\ mNumBits = ctor.arg /\ allocs = 0)

\* An external-buffer stream over 13 bits, after calls were made on it.
C18_Witness ==
    /\ ctor = [kind |-> "external", arg |-> 13] /\ ~mOwnsMemory
    /\ mMaxBits = 13 /\ ops = MaxOps /\ call.op \in WriteOps /\ ~call.viol

\* C19: an allocation failure during growth leaves the stream unchanged.
\* The old buffer is released, and pointer and capacity are updated, only
\* after the new buffer was allocated and populated; so when the allocation
\* fails, the buffer, capacity(), size() and tell() are as before the write
\* and the stream can still be destroyed safely.
C19_AllocationFailureSafe ==
    [][/\ call'.oom => UNCHANGED <<stream, bufId, released, uaf>>
       /\ (call.oom /\ destroyed')
          => /\ \A i, j \in 1..Len(released') :
                   released'[i] = released'[j] => i = j
             /\ Released' = 1..allocs
             /\ ~uaf']_vars

\* A write that had to grow a buffer holding written bits, and for which
\* the allocation failed.
C19_Witness ==
    /\ call.oom /\ call.op = "writeBits" /\ bufId = 1
    /\ mNumBits > 0 /\ call.preCursor + call.count > mMaxBits

\* The bits a write on a self-owned stream asks for when it ends at bit r
\* past the capacity.
GrowthRequest(r) == r + 4 * 8 + r \div 2

\* C20: when a write on a self-owned stream ends at r = cursor + count past
\* capacity(), the capacity after the write is exactly r + 4 * 8 +
\* floor(r / 2) rounded up to the next multiple of 8; when r <= capacity(),
\* the capacity and the buffer identity are unchanged.
C20_GrowthPolicy ==
    [][(call'.op \in WriteOps /\ call'.count > 0 /\ mOwnsMemory)
       => IF mCursor + call'.count > mMaxBits
          THEN /\ mMaxBits' = NextMultiple(GrowthRequest(mCursor + call'.count), 8)
               /\ call'.alloc /\ bufId' # bufId
          ELSE /\ mMaxBits' = mMaxBits
               /\ ~call'.alloc /\ bufId' = bufId]_vars

\* A write that grew a non-empty buffer, with a request that had to be
\* rounded up.
C20_Witness ==
    /\ call.op \in WriteOps /\ mOwnsMemory /\ call.alloc
    /\ call.preMaxBits > 0
    /\ GrowthRequest(call.preCursor + call.count) % 8 # 0
    /\ mMaxBits > GrowthRequest(call.preCursor + call.count)

BufferOps == {"writeBits", "write(bool)", "readBits", "read(bool)"}

\* C22: in every call of writeBits, write(bool), readBits and read(bool)
\* whose documented precondition holds, every byte index of the stream
\* buffer that is read or written, the accesses to destQuant + 1 and
\* srcQuant + 1 included, is below ceil(capacity() / 8), for every cursor
\* alignment and count, also on external buffers whose bit count is not a
\* multiple of 8.
C22_BufferBounds ==
    (call.op \in BufferOps /\ ~call.viol)
    => call.hi < DivideAndRoundUp(mMaxBits, BITS_PER_QUANT)

\* A write at an unaligned cursor in the first byte of an external buffer of
\* 13 bits that ran over into its second, last byte and ended at bit 13.
C22_Witness ==
    /\ call.op = "writeBits" /\ ~call.viol
    /\ ~mOwnsMemory /\ mMaxBits = 13
    /\ call.preCursor % BITS_PER_QUANT > 0 /\ call.preCursor < BITS_PER_QUANT
    /\ call.preCursor + call.count = mMaxBits
    /\ call.hi = DivideAndRoundUp(mMaxBits, BITS_PER_QUANT) - 1

\* C23: reading and zero-length operations change nothing but the cursor.
\* readBits, read(bool), tell, eof, size, capacity and data never change a
\* buffer bit, size() or capacity(); the accessors do not move the cursor
\* either; writeBits and readBits with count = 0 change nothing at all (no
\* growth, cursor and size unchanged); and eof() is true exactly when
\* tell() >= size().
C23_ReadsChangeOnlyCursor ==
    [][/\ (call'.op \in {"readBits", "read(bool)", "accessors"} /\ ~ub')
          => UNCHANGED <<mData, mMaxBits, mNumBits>>
       /\ (call'.op \in {"writeBits", "readBits"} /\ call'.count = 0)
          => (UNCHANGED stream /\ ~call'.alloc /\ ~trapped' /\ ~ub')
       /\ call'.op = "accessors"
          => /\ UNCHANGED stream
             /\ call'.dst = <<mCursor, mNumBits, mMaxBits>>
             /\ call'.src = mData
             /\ (call'.arg = 1) <=> (call'.dst[1] >= call'.dst[2])]_vars

\* The accessors called with the cursor exactly at the end of the written
\* bits: eof() is true at tell() = size() > 0.
C23_Witness ==
    /\ call.op = "accessors" /\ call.arg = 1
    /\ mNumBits > 0 /\ mCursor = mNumBits /\ mCursor < mMaxBits

=============================================================================
